---- MODULE Spec2Model ----
(***************************************************************************)
(* A model of saida (src/src/lib.rs): the evaluator, the quoter, the       *)
(* alpha-equivalence that backs Expr equality, and the bidirectional       *)
(* checker of a small lambda calculus with universes.                      *)
(*                                                                         *)
(* Expressions, values and neutrals are tagged tuples.  A Rust panic!() is *)
(* the outcome Panic; it propagates through every caller, as unwinding     *)
(* does.  HashMap<Identifier, _> is a function whose domain is the set of  *)
(* keys; HashSet<&str> is a set of strings.  Identifiers are strings, and  *)
(* String::push('\'') is concatenation with "'".                           *)
(***************************************************************************)
EXTENDS Integers, Sequences, FiniteSets, TLC

VARIABLES pc, term, scope, val, nf, other, eqr, ty, cx, res, calls, fname, fx

vars == <<pc, term, scope, val, nf, other, eqr, ty, cx, res, calls, fname, fx>>

(***************************************************************************)
(* Bounds of the model.                                                    *)
(***************************************************************************)
MaxLevel == 3
MaxPrimes == 1
MaxSize == 3

(***************************************************************************)
(* enum Expr                                                               *)
(***************************************************************************)
App(e_1, e_2) == <<"App", e_1, e_2>>
Fun(e_1, e_2) == <<"Fun", e_1, e_2>>
Lam(x, e) == <<"Lam", x, e>>
Sub(x, e_1, e_2) == <<"Sub", x, e_1, e_2>>
U(i) == <<"U", i>>
Var(x) == <<"Var", x>>

(***************************************************************************)
(* enum Neutral, enum Value                                                *)
(***************************************************************************)
NApp(n, v) == <<"NApp", n, v>>
NVar(x) == <<"NVar", x>>

VFun(v_1, v_2) == <<"VFun", v_1, v_2>>
VLam(x, e, d) == <<"VLam", x, e, d>>
VNeutral(n) == <<"VNeutral", n>>
VU(i) == <<"VU", i>>

(***************************************************************************)
(* The outcome of a panic!(), and Result<_, Error>.                        *)
(***************************************************************************)
Panic == <<"Panic">>
Ok == <<"Ok">>
OkT(t) == <<"Ok", t>>
Err(msg) == <<"Err", msg>>
None == <<"None">>

NotAFunction == "not a function"
UnknownIdentifier == "unknown identifier"
CannotInferType == "could not infer type"
TypeMismatch == "type mismatch"

(***************************************************************************)
(* HashMap::new, HashMap::insert on a copy, HashMap::get.                  *)
(***************************************************************************)
EmptyMap == <<>>
Insert(d, x, v) == [k \in (DOMAIN d) \cup {x} |-> IF k = x THEN v ELSE d[k]]
Has(d, x) == x \in DOMAIN d

(***************************************************************************)
(* freshen: x.push('\'') while xs contains x.                              *)
(***************************************************************************)
\* A freshen that pushes two apostrophes at a time.
PushTwice(x) == (x \o "'") \o "'"

Push(x) == x \o "'"

RECURSIVE freshen(_, _)
freshen(x, xs) == IF x \in xs THEN freshen(Push(x), xs) ELSE x

(***************************************************************************)
(* Expr::eval, Value::quote, Neutral::quote                                *)
(***************************************************************************)
RECURSIVE eval(_, _)
eval(e, d) ==
  CASE e[1] = "App" ->
         LET f == eval(e[2], d) IN
         CASE f[1] = "VLam" ->
                LET a == eval(e[3], d) IN
                IF a = Panic THEN Panic ELSE eval(f[3], Insert(f[4], f[2], a))
           [] f[1] = "VNeutral" ->
                LET a == eval(e[3], d) IN
                IF a = Panic THEN Panic ELSE VNeutral(NApp(f[2], a))
           [] OTHER -> Panic
    [] e[1] = "Fun" ->
         LET v_1 == eval(e[2], d) IN
         IF v_1 = Panic THEN Panic
         ELSE LET v_2 == eval(e[3], d) IN
              IF v_2 = Panic THEN Panic ELSE VFun(v_1, v_2)
    [] e[1] = "Lam" -> VLam(e[2], e[3], d)
    [] e[1] = "Sub" ->
         LET v == eval(e[3], d) IN
         IF v = Panic THEN Panic ELSE eval(e[4], Insert(d, e[2], v))
    [] e[1] = "U" -> VU(e[2])
    [] e[1] = "Var" -> IF Has(d, e[2]) THEN d[e[2]] ELSE VNeutral(NVar(e[2]))

\* A quote that binds the closure's own parameter name.
QuoteKeyOriginal(x, x_) == x

\* The key under which quote binds the reflected variable (lib.rs:188).
QuoteKey(x, x_) == x_

RECURSIVE quote(_, _), nquote(_, _)
quote(v, xs) ==
  CASE v[1] = "VFun" ->
         LET q_1 == quote(v[2], xs) IN
         IF q_1 = Panic THEN Panic
         ELSE LET q_2 == quote(v[3], xs) IN
              IF q_2 = Panic THEN Panic ELSE Fun(q_1, q_2)
    [] v[1] = "VLam" ->
         LET x_ == freshen(v[2], xs)
             d_ == Insert(v[4], QuoteKey(v[2], x_), VNeutral(NVar(x_)))
             xs_ == xs \cup {x_}
             b == eval(v[3], d_)
         IN IF b = Panic THEN Panic
            ELSE LET e_ == quote(b, xs_) IN
                 IF e_ = Panic THEN Panic ELSE Lam(x_, e_)
    [] v[1] = "VNeutral" -> nquote(v[2], xs)
    [] v[1] = "VU" -> U(v[2])

nquote(n, xs) ==
  CASE n[1] = "NApp" ->
         LET q_1 == nquote(n[2], xs) IN
         IF q_1 = Panic THEN Panic
         ELSE LET q_2 == quote(n[3], xs) IN
              IF q_2 = Panic THEN Panic ELSE App(q_1, q_2)
    [] n[1] = "NVar" -> Var(n[2])

(***************************************************************************)
(* Expr::alpha_eq and impl PartialEq for Expr.  The outcome is "true",     *)
(* "false" or "panic"; && evaluates its right operand only when the left   *)
(* one is true.                                                            *)
(***************************************************************************)
RECURSIVE alpha_eq(_, _, _, _, _)
alpha_eq(a, b, i, xs, ys) ==
  CASE a[1] = "App" /\ b[1] = "App" ->
         LET r == alpha_eq(a[2], b[2], i, xs, ys) IN
         IF r = "true" THEN alpha_eq(a[3], b[3], i, xs, ys) ELSE r
    [] a[1] = "Lam" /\ b[1] = "Lam" ->
         alpha_eq(a[3], b[3], i + 1, Insert(xs, a[2], i), Insert(ys, b[2], i))
    [] a[1] = "Var" /\ b[1] = "Var" ->
         CASE ~Has(xs, a[2]) /\ ~Has(ys, b[2]) ->
                IF a[2] = b[2] THEN "true" ELSE "false"
           [] Has(xs, a[2]) /\ Has(ys, b[2]) ->
                IF xs[a[2]] = ys[b[2]] THEN "true" ELSE "false"
           [] OTHER -> "false"
    [] OTHER -> "panic"

eq(a, b) == alpha_eq(a, b, 0, EmptyMap, EmptyMap)

(***************************************************************************)
(* Expr::check and Expr::infer.  Each returns the record [r, calls]: r is  *)
(* the Result (or Panic) and calls is the sequence of the invocations of   *)
(* check and infer made, in order, each with the expression (and, for      *)
(* check, the expected type) it was made on.  The ? operator returns an    *)
(* Err at once; a panic unwinds.                                           *)
(***************************************************************************)
Ret(r, cs) == [r |-> r, calls |-> cs]

\* A universe rule that lets a level check against itself.
LevelBelowOrEqual(i, j) == i <= j

\* The guard of the universe rule (lib.rs:83).
LevelBelow(i, j) == i < j

\* What an application's head must infer to (lib.rs:130).
IsFunType(v) == v[1] = "VFun"

\* A Fun rule that checks the codomain against the next universe.
CodExpectedNext(t) == VU(t[2] + 1)

\* The expected type the codomain of a Fun is checked against (lib.rs:70).
CodExpected(t) == t

\* t_.quote(&xs) != t.quote(&xs), then Err("type mismatch") or Ok(()).
CompareTypes(t_, t, xs) ==
  LET q_1 == quote(t_, xs) IN
  IF q_1 = Panic THEN Panic
  ELSE LET q_2 == quote(t, xs) IN
       IF q_2 = Panic THEN Panic
       ELSE LET r == eq(q_1, q_2) IN
            CASE r = "panic" -> Panic
              [] r = "false" -> Err(TypeMismatch)
              [] r = "true" -> Ok

RECURSIVE checkT(_, _, _), inferT(_, _)

\* An infer whose App rule reports every head that is not known to be a
\* function as "not a function", a head that fails to infer included.
inferTHeadless(e, c) ==
  LET me == <<<<"infer", e>>>> IN
  CASE e[1] = "App" ->
         LET i_1 == inferT(e[2], c) IN
         IF i_1.r = Panic THEN Ret(Panic, me \o i_1.calls)
         ELSE IF i_1.r[1] # "Ok" \/ ~IsFunType(i_1.r[2])
              THEN Ret(Err(NotAFunction), me \o i_1.calls)
              ELSE LET v == i_1.r[2]
                       c_2 == checkT(e[3], v[2], c)
                   IN IF c_2.r # Ok THEN Ret(c_2.r, me \o i_1.calls \o c_2.calls)
                      ELSE Ret(OkT(v[3]), me \o i_1.calls \o c_2.calls)
    [] e[1] = "Sub" ->
         LET i_1 == inferT(e[3], c) IN
         IF i_1.r[1] # "Ok" THEN Ret(i_1.r, me \o i_1.calls)
         ELSE LET i_2 == inferT(e[4], Insert(c, e[2], i_1.r[2])) IN
              Ret(i_2.r, me \o i_1.calls \o i_2.calls)
    [] e[1] = "Var" ->
         Ret(IF Has(c, e[2]) THEN OkT(c[e[2]]) ELSE Err(UnknownIdentifier), me)
    [] OTHER -> Ret(Err(CannotInferType), me)

checkT(e, t, c) ==
  LET me == <<<<"check", e, t>>>> IN
  CASE e[1] = "Fun" /\ t[1] = "VU" ->
         LET c_1 == checkT(e[2], t, c) IN
         IF c_1.r # Ok THEN Ret(c_1.r, me \o c_1.calls)
         ELSE LET c_2 == checkT(e[3], CodExpected(t), c) IN
              Ret(c_2.r, me \o c_1.calls \o c_2.calls)
    [] e[1] = "Lam" /\ t[1] = "VFun" ->
         LET c_1 == checkT(e[3], t[3], Insert(c, e[2], t[2])) IN
         Ret(c_1.r, me \o c_1.calls)
    [] e[1] = "Sub" ->
         LET i_1 == inferT(e[3], c) IN
         IF i_1.r[1] # "Ok" THEN Ret(i_1.r, me \o i_1.calls)
         ELSE LET c_2 == checkT(e[4], t, Insert(c, e[2], i_1.r[2])) IN
              Ret(c_2.r, me \o i_1.calls \o c_2.calls)
    [] e[1] = "U" /\ t[1] = "VU" /\ LevelBelow(e[2], t[2]) -> Ret(Ok, me)
    [] OTHER ->
         LET i_1 == inferT(e, c) IN
         IF i_1.r[1] # "Ok" THEN Ret(i_1.r, me \o i_1.calls)
         ELSE Ret(CompareTypes(i_1.r[2], t, DOMAIN c), me \o i_1.calls)

inferT(e, c) ==
  LET me == <<<<"infer", e>>>> IN
  CASE e[1] = "App" ->
         LET i_1 == inferT(e[2], c) IN
         IF i_1.r[1] # "Ok" THEN Ret(i_1.r, me \o i_1.calls)
         ELSE LET v == i_1.r[2] IN
              IF ~IsFunType(v) THEN Ret(Err(NotAFunction), me \o i_1.calls)
              ELSE LET c_2 == checkT(e[3], v[2], c) IN
                   IF c_2.r # Ok THEN Ret(c_2.r, me \o i_1.calls \o c_2.calls)
                   ELSE Ret(OkT(v[3]), me \o i_1.calls \o c_2.calls)
    [] e[1] = "Sub" ->
         LET i_1 == inferT(e[3], c) IN
         IF i_1.r[1] # "Ok" THEN Ret(i_1.r, me \o i_1.calls)
         ELSE LET i_2 == inferT(e[4], Insert(c, e[2], i_1.r[2])) IN
              Ret(i_2.r, me \o i_1.calls \o i_2.calls)
    [] e[1] = "Var" ->
         Ret(IF Has(c, e[2]) THEN OkT(c[e[2]]) ELSE Err(UnknownIdentifier), me)
    [] OTHER -> Ret(Err(CannotInferType), me)

check(e, t, c) == checkT(e, t, c).r
infer(e, c) == inferT(e, c).r

(***************************************************************************)
(* The inputs: identifiers with up to MaxPrimes apostrophes, universe      *)
(* levels up to MaxLevel, expressions of up to MaxSize nodes, and the      *)
(* terms of the repository's own example (tests::quotation_works, main).   *)
(***************************************************************************)
RECURSIVE Prime(_, _)
Prime(x, k) == IF k = 0 THEN x ELSE Prime(x, k - 1) \o "'"

Levels == 0..MaxLevel
Names == {Prime(b, k) : b \in {"x", "y"}, k \in 0..MaxPrimes}
CheckNames == {"x", "z"}

RECURSIVE ExprsOfSize(_, _)
ExprsOfSize(n, names) ==
  IF n = 1 THEN {Var(x) : x \in names} \cup {U(i) : i \in Levels}
  ELSE {Lam(x, e) : x \in names, e \in ExprsOfSize(n - 1, names)}
       \cup UNION {{App(a, b) : a \in ExprsOfSize(k, names),
                                b \in ExprsOfSize(n - 1 - k, names)}
                   : k \in 1..(n - 2)}
       \cup UNION {{Fun(a, b) : a \in ExprsOfSize(k, names),
                                b \in ExprsOfSize(n - 1 - k, names)}
                   : k \in 1..(n - 2)}
       \cup UNION {{Sub(x, a, b) : x \in names,
                                   a \in ExprsOfSize(k, names),
                                   b \in ExprsOfSize(n - 1 - k, names)}
                   : k \in 1..(n - 2)}

Exprs(names) == UNION {ExprsOfSize(n, names) : n \in 1..MaxSize}

TestExpr == App(Lam("x", Lam("y", Var("y"))), Var("y"))
TestExpected == Lam("y'", Var("y"))
CaptureExpr == Lam("x", App(Var("x"), Var("x'")))

ExprPool == Exprs(Names) \cup {TestExpr, CaptureExpr}
ScopePool == {{Prime(b, j) : j \in 0..(k - 1)} : b \in {"x", "y"}, k \in 0..(MaxPrimes + 1)}

EqPool == Exprs({"x", "y"})

CheckPool == Exprs(CheckNames)
TypePool == {VU(i) : i \in Levels}
            \cup {VFun(VU(0), VU(i)) : i \in 0..1}
            \cup {VNeutral(NVar("x"))}
CtxPool == {EmptyMap} \cup {Insert(EmptyMap, "x", t) : t \in TypePool}

(***************************************************************************)
(* Normalisation, as main and tests::quotation_works run it: evaluate the  *)
(* term under the empty environment, quote the value under a set of names  *)
(* in scope, compare the normal form with an expression.                   *)
(***************************************************************************)
Init ==
  /\ pc = "start"
  /\ term \in ExprPool
  /\ scope = {}
  /\ val = None /\ nf = None /\ other = None /\ eqr = "none"
  /\ ty = None /\ cx = EmptyMap /\ res = None /\ calls = <<>>
  /\ fname = "" /\ fx = ""

Eval ==
  /\ pc = "start"
  /\ val' = eval(term, EmptyMap)
  /\ pc' = "evaluated"
  /\ UNCHANGED <<term, scope, nf, other, eqr, ty, cx, res, calls, fname, fx>>

Quote ==
  /\ pc = "evaluated"
  /\ val # Panic
  /\ \E xs \in ScopePool :
       /\ scope' = xs
       /\ nf' = quote(val, xs)
  /\ pc' = "quoted"
  /\ UNCHANGED <<term, val, other, eqr, ty, cx, res, calls, fname, fx>>

Equal ==
  /\ pc = "quoted"
  /\ nf # Panic
  /\ \E o \in {term, TestExpected} :
       /\ other' = o
       /\ eqr' = eq(nf, o)
  /\ pc' = "compared"
  /\ UNCHANGED <<term, scope, val, nf, ty, cx, res, calls, fname, fx>>

Next == Eval \/ Quote \/ Equal

Spec == Init /\ [][Next]_vars

(***************************************************************************)
(* Expr equality on two expressions.                                       *)
(***************************************************************************)
InitEq ==
  /\ pc = "start"
  /\ term \in EqPool
  /\ scope = {}
  /\ val = None /\ nf = None /\ other = None /\ eqr = "none"
  /\ ty = None /\ cx = EmptyMap /\ res = None /\ calls = <<>>
  /\ fname = "" /\ fx = ""

Compare ==
  /\ pc = "start"
  /\ \E o \in EqPool :
       /\ other' = o
       /\ eqr' = eq(term, o)
  /\ pc' = "compared"
  /\ UNCHANGED <<term, scope, val, nf, ty, cx, res, calls, fname, fx>>

NextEq == Compare

SpecEq == InitEq /\ [][NextEq]_vars

(***************************************************************************)
(* Checking and inference of a term under a context.                       *)
(***************************************************************************)
InitCheck ==
  /\ pc = "start"
  /\ term \in CheckPool
  /\ scope = {}
  /\ val = None /\ nf = None /\ other = None /\ eqr = "none"
  /\ ty = None /\ cx = EmptyMap /\ res = None /\ calls = <<>>
  /\ fname = "" /\ fx = ""

Check ==
  /\ pc = "start"
  /\ \E t \in TypePool, c \in CtxPool :
       LET k == checkT(term, t, c) IN
       /\ ty' = t
       /\ cx' = c
       /\ res' = k.r
       /\ calls' = k.calls
  /\ pc' = "checked"
  /\ UNCHANGED <<term, scope, val, nf, other, eqr, fname, fx>>

Infer ==
  /\ pc = "start"
  /\ \E c \in CtxPool :
       LET k == inferT(term, c) IN
       /\ cx' = c
       /\ res' = k.r
       /\ calls' = k.calls
  /\ pc' = "inferred"
  /\ UNCHANGED <<term, scope, val, nf, other, eqr, ty, fname, fx>>

NextCheck == Check \/ Infer

SpecCheck == InitCheck /\ [][NextCheck]_vars

(***************************************************************************)
(* freshen, one invocation per step: the call on fx either pushes an       *)
(* apostrophe and calls itself, or returns fx.                             *)
(***************************************************************************)
InitFreshen ==
  /\ pc = "freshen"
  /\ fname \in Names
  /\ fx = fname
  /\ scope \in SUBSET Names
  /\ term = None
  /\ val = None /\ nf = None /\ other = None /\ eqr = "none"
  /\ ty = None /\ cx = EmptyMap /\ res = None /\ calls = <<>>

FreshenPush ==
  /\ pc = "freshen"
  /\ fx \in scope
  /\ fx' = Push(fx)
  /\ UNCHANGED <<pc, term, scope, val, nf, other, eqr, ty, cx, res, calls, fname>>

FreshenReturn ==
  /\ pc = "freshen"
  /\ fx \notin scope
  /\ pc' = "returned"
  /\ UNCHANGED <<term, scope, val, nf, other, eqr, ty, cx, res, calls, fname, fx>>

NextFreshen == FreshenPush \/ FreshenReturn

SpecFreshen == InitFreshen /\ [][NextFreshen]_vars /\ WF_vars(NextFreshen)

(***************************************************************************)
(* Alpha-equivalence, stated independently of the code: two expressions    *)
(* are alpha-equivalent when their nameless (de Bruijn) forms are equal.   *)
(* bs is the sequence of the binders in scope, innermost first.            *)
(***************************************************************************)
RECURSIVE Index(_, _, _)
Index(x, bs, k) ==
  IF k > Len(bs) THEN 0 ELSE IF bs[k] = x THEN k ELSE Index(x, bs, k + 1)

RECURSIVE Nameless(_, _)
Nameless(e, bs) ==
  CASE e[1] = "App" -> <<"App", Nameless(e[2], bs), Nameless(e[3], bs)>>
    [] e[1] = "Fun" -> <<"Fun", Nameless(e[2], bs), Nameless(e[3], bs)>>
    [] e[1] = "Lam" -> <<"Lam", Nameless(e[3], <<e[2]>> \o bs)>>
    [] e[1] = "Sub" -> <<"Sub", Nameless(e[3], bs), Nameless(e[4], <<e[2]>> \o bs)>>
    [] e[1] = "U" -> e
    [] e[1] = "Var" -> IF Index(e[2], bs, 1) = 0 THEN <<"Free", e[2]>>
                       ELSE <<"Bound", Index(e[2], bs, 1)>>

AlphaEquivalent(a, b) == Nameless(a, <<>>) = Nameless(b, <<>>)

\* A normal form: no Sub, and no App whose head is a Lam.
RECURSIVE IsNormal(_)
IsNormal(e) ==
  CASE e[1] = "App" -> e[2][1] # "Lam" /\ IsNormal(e[2]) /\ IsNormal(e[3])
    [] e[1] = "Fun" -> IsNormal(e[2]) /\ IsNormal(e[3])
    [] e[1] = "Lam" -> IsNormal(e[3])
    [] e[1] = "Sub" -> FALSE
    [] OTHER -> TRUE

(***************************************************************************)
(* C1: evaluating the test's term App(Lam x. Lam y. y, y) under the empty  *)
(* environment and quoting the value under {"y"} gives an expression that  *)
(* Expr equality reports equal to Lam("y'", Var("y")).                     *)
(***************************************************************************)
C1_QuotationWorks ==
  (pc = "compared" /\ term = TestExpr /\ scope = {"y"} /\ other = TestExpected)
    => eqr = "true"

C1_Witness ==
  /\ pc = "compared" /\ term = TestExpr /\ scope = {"y"}
  /\ other = TestExpected /\ nf = Lam("y'", Var("y")) /\ eqr = "true"

(***************************************************************************)
(* C2 as stated: check(U(i), U(j), cx) succeeds if and only if i < j, and  *)
(* otherwise fails with a universe level error.                            *)
(***************************************************************************)
UniverseLevelError == "universe level error"

C2_Original ==
  (pc = "checked" /\ term[1] = "U" /\ ty[1] = "VU")
    => /\ res = Ok <=> term[2] < ty[2]
       /\ term[2] >= ty[2] => res = Err(UniverseLevelError)

(***************************************************************************)
(* C2, amended: check(U(i), U(j), cx) succeeds if and only if i < j, and   *)
(* otherwise fails with the error of the fallback's inference, "could not  *)
(* infer type".                                                            *)
(***************************************************************************)
C2_UniverseRule ==
  (pc = "checked" /\ term[1] = "U" /\ ty[1] = "VU")
    => /\ res = Ok <=> term[2] < ty[2]
       /\ term[2] >= ty[2] => res = Err(CannotInferType)

C2_Witness ==
  /\ pc = "checked" /\ term = U(3) /\ ty = VU(2) /\ cx = EmptyMap
  /\ res = Err(CannotInferType)

(***************************************************************************)
(* C3: in the fallback case of check, when infer(e, cx) succeeds with T,   *)
(* check returns Ok if the quotes of T and of the expected type under the  *)
(* names of cx are alpha-equivalent and Err("type mismatch") otherwise,    *)
(* and it returns nothing else.                                            *)
(***************************************************************************)
IsFallback(e, t) ==
  /\ ~(e[1] = "Fun" /\ t[1] = "VU")
  /\ ~(e[1] = "Lam" /\ t[1] = "VFun")
  /\ e[1] # "Sub"
  /\ ~(e[1] = "U" /\ t[1] = "VU" /\ e[2] < t[2])

C3_FallbackOkOrMismatch ==
  (pc = "checked" /\ IsFallback(term, ty) /\ infer(term, cx)[1] = "Ok")
    => LET T == infer(term, cx)[2]
           same == AlphaEquivalent(quote(T, DOMAIN cx), quote(ty, DOMAIN cx))
       IN res = IF same THEN Ok ELSE Err(TypeMismatch)

(***************************************************************************)
(* C4 as stated: infer(App(f, a), cx) fails with "not a function" whenever *)
(* the head f does not have a function type, a head that is a universe     *)
(* literal included.                                                       *)
(***************************************************************************)
HasFunType(e, c) == infer(e, c)[1] = "Ok" /\ infer(e, c)[2][1] = "VFun"

C4_Original ==
  (pc = "inferred" /\ term[1] = "App" /\ ~HasFunType(term[2], cx))
    => res = Err(NotAFunction)

(***************************************************************************)
(* C4, amended: infer(App(f, a), cx) fails with "not a function" whenever  *)
(* infer(f, cx) succeeds with a type that is not a function type; when     *)
(* infer(f, cx) fails, that error is returned, so a head that is a         *)
(* universe literal fails with "could not infer type".                     *)
(***************************************************************************)
C4_NotAFunction ==
  (pc = "inferred" /\ term[1] = "App")
    => LET h == infer(term[2], cx) IN
       /\ (h[1] = "Ok" /\ h[2][1] # "VFun") => res = Err(NotAFunction)
       /\ h[1] = "Err" => res = h
       /\ term[2][1] = "U" => res = Err(CannotInferType)

C4_Witness ==
  /\ pc = "inferred" /\ term = App(Var("x"), Var("z"))
  /\ cx = Insert(EmptyMap, "x", VU(0)) /\ res = Err(NotAFunction)

(***************************************************************************)
(* C9: check(Fun(U(i), U(j)), U(k), cx) checks the domain and then the     *)
(* codomain against the same U(k) and succeeds exactly when i < k and      *)
(* j < k; when the domain check fails, its error is returned and the       *)
(* codomain is not checked.                                                *)
(***************************************************************************)
C9_FunFormation ==
  (pc = "checked" /\ term[1] = "Fun" /\ term[2][1] = "U" /\ term[3][1] = "U"
     /\ ty[1] = "VU")
    => LET i == term[2][2]
           j == term[3][2]
           k == ty[2]
           head == <<<<"check", term, ty>>, <<"check", term[2], ty>>>>
       IN /\ res = Ok <=> (i < k /\ j < k)
          /\ i >= k => /\ res = Err(CannotInferType)
                       /\ calls = head \o <<<<"infer", term[2]>>>>
          /\ i < k => /\ Len(calls) >= 3
                      /\ SubSeq(calls, 1, 3) = head \o <<<<"check", term[3], ty>>>>

C9_Witness ==
  /\ pc = "checked" /\ term = Fun(U(1), U(0)) /\ ty = VU(1)
  /\ res = Err(CannotInferType) /\ Len(calls) = 3

(***************************************************************************)
(* C5: for every expression e in normal form and every set of names in     *)
(* scope, Expr equality reports quote(eval(e, {}), scope) equal to e, also *)
(* when a binder of e is in scope or is shadowed by a nested binder.  The  *)
(* comparisons that abort (C6) are left aside: the claim is stated on the  *)
(* comparisons that return.                                                *)
(***************************************************************************)
C5_RoundTrip ==
  (pc = "compared" /\ IsNormal(term) /\ other = term /\ eqr # "panic")
    => eqr = "true"

(***************************************************************************)
(* C6: Expr equality is alpha-equivalence on expressions of all six        *)
(* constructors: e == e is true, and e == e' is true if and only if e and  *)
(* e' are identical up to a consistent renaming of bound variables.        *)
(***************************************************************************)
C6_EqIsAlphaEquivalence ==
  pc = "compared"
    => /\ term = other => eqr = "true"
       /\ eqr = "true" <=> AlphaEquivalent(term, other)

(***************************************************************************)
(* C7: freshen(x, xs) terminates and returns x followed by k apostrophes,  *)
(* k the least number for which that name is not in xs; the result is not  *)
(* in xs, is x itself when x is not in xs, and is the value of the         *)
(* recursive freshen for the same inputs.                                  *)
(***************************************************************************)
LeastPrimes(x, xs) ==
  CHOOSE k \in 0..Cardinality(xs) :
    /\ Prime(x, k) \notin xs
    /\ \A j \in 0..(k - 1) : Prime(x, j) \in xs

C7_FreshenLeast ==
  /\ <>(pc = "returned")
  /\ [](pc = "returned"
          => /\ fx = Prime(fname, LeastPrimes(fname, scope))
             /\ fx \notin scope
             /\ fname \notin scope => fx = fname
             /\ fx = freshen(fname, scope))

C7_Witness ==
  /\ pc = "returned" /\ fname = "x" /\ {"x", "x'"} \subseteq scope
  /\ fx = "x''"

(***************************************************************************)
(* C8: quoting the value of Lam("x", App(Var("x"), Var("x'"))) under a set *)
(* of names in scope that contains "x" gives Lam(n, App(Var(n), Var("x'")))*)
(* for a binder n other than "x'": the first occurrence is bound by the    *)
(* new binder and "x'" stays free.                                         *)
(***************************************************************************)
C8_NoCapture ==
  (pc = "quoted" /\ term = CaptureExpr /\ "x" \in scope)
    => /\ nf[1] = "Lam"
       /\ nf[2] # "x'"
       /\ nf[3] = App(Var(nf[2]), Var("x'"))

(***************************************************************************)
(* C10: quoting a closure Lam(x, body, d) under S gives Lam(x', q), where  *)
(* x' = freshen(x, S) and q is the quote under S \cup {x'} of body         *)
(* evaluated in d with the closure's own name x bound to Neutral Var(x').  *)
(***************************************************************************)
C10_QuoteBindsParameter ==
  (pc = "quoted" /\ val[1] = "VLam" /\ nf # Panic)
    => LET x_ == freshen(val[2], scope)
           b == eval(val[3], Insert(val[4], val[2], VNeutral(NVar(x_))))
       IN b # Panic => nf = Lam(x_, quote(b, scope \cup {x_}))

====
